---- MODULE Spec2Model ----
(***************************************************************************)
(* svg2pdf: the two entry points of src/lib.rs, convert_tree (a standalone *)
(* one-page PDF) and convert_tree_into (a Form XObject written into a      *)
(* caller's chunk), as a state machine over the reference allocator, the   *)
(* deferrer's resource scopes, the two lazily reserved ICC profile         *)
(* references and the sequence of indirect objects written.                *)
(*                                                                         *)
(* Context, Deferrer, the allocator, dpi_ratio and tree_to_stream live in  *)
(* the modules util and render, which lib.rs only declares (lines 56-57)   *)
(* and calls; they are modelled from the specification's sections 3, 4.1,  *)
(* 4.2 and 4.3 and from the way lib.rs uses them.                          *)
(***************************************************************************)
EXTENDS Integers, Sequences, FiniteSets, TLC

\* ------------------------------------------------------------------ bounds

\* Longest tree, counted in walk events (a leaf node is one event, a nested
\* content stream is an enter and a leave event).
MaxScript == 5

\* Conversions made one after the other by the same process.
MaxRuns == 2

\* The largest start_ref a caller of convert_tree_into passes.
MaxStartRef == 6

\* ------------------------------------------------------------ f32 numbers
\* An f32 is modelled by its class, its sign and its binary order of
\* magnitude: NaN, an infinity, a zero, or a finite s * 2^e.

\* Largest binary exponent of a finite f32.
F32MaxExp == 127

\* Smallest binary exponent of a (subnormal) f32.
F32MinExp == -149

NaN == [k |-> "nan", s |-> 1, e |-> 0]

Inf(s) == [k |-> "inf", s |-> s, e |-> 0]

Zero(s) == [k |-> "zero", s |-> s, e |-> 0]

Fin(s, e) == [k |-> "fin", s |-> s, e |-> e]

\* IEEE 754 division as f32 `/` computes it, on the modelled values.
FDiv(a, b) ==
  LET s == a.s * b.s IN
  CASE a.k = "nan" \/ b.k = "nan" -> NaN
    [] a.k = "inf" /\ b.k = "inf" -> NaN
    [] a.k = "zero" /\ b.k = "zero" -> NaN
    [] a.k = "inf" -> Inf(s)
    [] b.k = "inf" -> Zero(s)
    [] a.k = "zero" -> Zero(s)
    [] b.k = "zero" -> Inf(s)
    [] OTHER ->
         IF a.e - b.e > F32MaxExp THEN Inf(s)
         ELSE IF a.e - b.e < F32MinExp THEN Zero(s)
         ELSE Fin(s, a.e - b.e)

\* util::helper::dpi_ratio: dots per user unit, dpi / 72.0 (72 is 1.125 * 2^6).
dpi_ratio(dpi) == FDiv(dpi, Fin(1, 6))

IsPositiveFinite(x) == x.k = "fin" /\ x.s = 1

\* Size::from_wh: Some exactly for a positive finite width and height.
\* None is the record with ok = FALSE.
SizeFromWh(w, h) ==
  [ok |-> IsPositiveFinite(w) /\ IsPositiveFinite(h), w |-> w, h |-> h]

\* NonZeroRect::from_xywh(0, 0, w, h): Some exactly when the rectangle is
\* finite and has left < right and top < bottom.
NonZeroRectFromXYWH(w, h) == IsPositiveFinite(w) /\ IsPositiveFinite(h)

\* ------------------------------------------------------------------ inputs

\* Tree::size(): a usvg Size, so positive and finite by construction.
TreeSizes == {[ok |-> TRUE, w |-> Fin(1, 8), h |-> Fin(1, 7)]}

NoViewport == [ok |-> FALSE, w |-> NaN, h |-> NaN]

\* Options: Default (dpi 72, no viewport, compress), and variations of each
\* field the entry points read.  A viewport is a Size: positive and finite.
OptionSets ==
  { [dpi |-> Fin(1, 6), viewport |-> NoViewport, compress |-> TRUE],
    [dpi |-> Fin(1, 6), viewport |-> NoViewport, compress |-> FALSE],
    [dpi |-> Fin(1, 8),
     viewport |-> [ok |-> TRUE, w |-> Fin(1, 9), h |-> Fin(1, 9)],
     compress |-> TRUE],
    [dpi |-> Zero(1), viewport |-> NoViewport, compress |-> TRUE],
    [dpi |-> Fin(-1, 6), viewport |-> NoViewport, compress |-> TRUE],
    [dpi |-> NaN, viewport |-> NoViewport, compress |-> TRUE],
    [dpi |-> Fin(1, -140), viewport |-> NoViewport, compress |-> TRUE] }

\* The tree as the walk meets it, in pre-order:
\*   "rgb"   a node painted in sRGB colour
\*   "gray"  a node painted in gray colour
\*   "res"   a node whose paint needs an indirect object of its own
\*           (a shading, a pattern, an image, an ExtGState)
\*   "enter" / "leave"  a nested content stream (a group XObject, a soft
\*           mask group, a pattern tile) around the nodes between them
Ops == {"rgb", "gray", "res", "enter", "leave"}

RECURSIVE Depth(_, _)
\* The nesting depth after the first n events of s, -1 once a leave has no
\* matching enter.
Depth(s, n) ==
  IF n = 0 THEN 0
  ELSE LET d == Depth(s, n - 1) IN
       IF d < 0 THEN -1
       ELSE IF s[n] = "enter" THEN d + 1
       ELSE IF s[n] = "leave" THEN d - 1
       ELSE d

\* The trees: every nested content stream that is entered is left.
Trees ==
  {s \in UNION {[1..n -> Ops] : n \in 0..MaxScript} : Depth(s, Len(s)) = 0}

StartRefs == {1, MaxStartRef}

\* ------------------------------------------------------------------- state

VARIABLES
  entry,              \* "convert_tree" or "convert_tree_into"
  start_ref,          \* convert_tree_into's start_ref (unused by convert_tree)
  tree,               \* the tree's walk events
  tree_size,          \* tree.size()
  options,            \* Options
  run,                \* which conversion of this process this is
  prev,               \* <<what the previous conversion produced>>, or <<>>
  SRGB_ICC_DEFLATED,  \* the process-wide Lazy cell: <<>> or its value
  GRAY_ICC_DEFLATED,  \* likewise
  pc,                 \* the entry point's position
  panic,              \* "none", or which unwrap failed
  pos,                \* the walk's position in tree
  ref_allocator,      \* the allocator's next identity (0: no Context yet)
  issued,             \* every identity alloc_ref returned, in order
  pending_entries,    \* the deferrer's stack of scopes (sets of identities)
  frames,             \* the walk's recursion: the XObjects being built
  srgb_ref,           \* Option<Ref>, 0 for None
  sgray_ref,          \* Option<Ref>, 0 for None
  written,            \* the indirect objects written, in order
  refs,               \* the entry point's local Refs (0: not yet bound)
  ret,                \* convert_tree_into's returned Ref (0: none)
  usedBy              \* <<owner, r>>: r was referenced while owner's content
                      \* stream was the innermost one being built

inputs == <<entry, start_ref, tree, tree_size, options>>

lazies == <<SRGB_ICC_DEFLATED, GRAY_ICC_DEFLATED>>

conversion ==
  <<pos, ref_allocator, issued, pending_entries, frames, srgb_ref, sgray_ref,
    written, refs, ret, usedBy>>

vars == <<inputs, run, prev, lazies, pc, panic, conversion>>

NoRefs ==
  [catalog |-> 0, page_tree |-> 0, page |-> 0, content |-> 0, x |-> 0,
   info |-> 0]

Init ==
  /\ entry \in {"convert_tree", "convert_tree_into"}
  /\ start_ref \in (IF entry = "convert_tree_into" THEN StartRefs ELSE {0})
  /\ tree \in Trees
  /\ tree_size \in TreeSizes
  /\ options \in OptionSets
  /\ run = 1
  /\ prev = <<>>
  /\ SRGB_ICC_DEFLATED = <<>>
  /\ GRAY_ICC_DEFLATED = <<>>
  /\ pc = "start"
  /\ panic = "none"
  /\ pos = 1
  /\ ref_allocator = 0
  /\ issued = <<>>
  /\ pending_entries = <<>>
  /\ frames = <<>>
  /\ srgb_ref = 0
  /\ sgray_ref = 0
  /\ written = <<>>
  /\ refs = NoRefs
  /\ ret = 0
  /\ usedBy = {}

\* --------------------------------------------------------------- allocator

\* Context::new(tree, options, start_ref): the allocator's first identity is
\* the caller's start_ref, or 1 without one (0 stands for None).
NewAllocator(start) == IF start = 0 THEN 1 ELSE start

\* Mutant of AllocNext: the counter is not moved on.
AllocNextStuck(n) == n

\* alloc_ref returns the counter's value and moves the counter on by one.
AllocNext(n) == n + 1

RECURSIVE RefAfter(_, _)
\* The counter after k calls of alloc_ref from counter n.
RefAfter(n, k) == IF k = 0 THEN n ELSE AllocNext(RefAfter(n, k - 1))

\* The identities k calls of alloc_ref return from counter n, in order.
Take(n, k) == [i \in 1..k |-> RefAfter(n, i - 1)]

\* ---------------------------------------------------------------- deferrer

\* Deferrer::push: a new, empty scope on top.
Push(stack) == Append(stack, {})

RECURSIVE AllEntries(_, _)
AllEntries(stack, n) ==
  IF n = 0 THEN {} ELSE stack[n] \cup AllEntries(stack, n - 1)

\* Mutant of PopEntries: pop writes the entries of every open scope.
PopEntriesOfAllScopes(stack) == AllEntries(stack, Len(stack))

\* The entries Deferrer::pop writes into the target resources dictionary:
\* those of the scope on top.
PopEntries(stack) == stack[Len(stack)]

\* The stack Deferrer::pop leaves.
PopRest(stack) == SubSeq(stack, 1, Len(stack) - 1)

\* A resource referenced by the content stream being built is recorded in
\* the scope on top.
AddEntry(stack, r) == [stack EXCEPT ![Len(stack)] = @ \cup {r}]

\* Deferrer::srgb_ref / sgray_ref: the profile's reference, reserved from the
\* allocator by the first call and handed out again by every later one.
ProfileRef(cur, next) == IF cur = 0 THEN next ELSE cur

\* The allocator after srgb_ref / sgray_ref.
ProfileNext(cur, next) == IF cur = 0 THEN AllocNext(next) ELSE next

\* What srgb_ref / sgray_ref adds to the identities issued.
ProfileIssued(cur, next) == IF cur = 0 THEN <<next>> ELSE <<>>

\* Deferrer::used_srgb / used_sgray: the profile's reference was handed out,
\* to a node of the walk or to the entry point itself (convert_tree asks for
\* srgb_ref() for the page group before it calls write_color_spaces).
used_srgb == srgb_ref # 0

used_sgray == sgray_ref # 0

\* ----------------------------------------------------------------- objects

Obj(id, kind, out, res, data, filter) ==
  [id |-> id, kind |-> kind, refs |-> out, res |-> res, data |-> data,
   filter |-> filter]

\* helper::deflate.
Deflate(bytes) == <<"zlib", bytes>>

\* Dereferencing a Lazy: its initialiser runs on the first access only.
Force(cell, bytes) == IF cell = <<>> THEN Deflate(bytes) ELSE cell

\* stream.filter(Filter::FlateDecode) under options.compress.
ContentFilter == IF options.compress THEN "FlateDecode" ELSE "none"

Ids(objs) == {objs[i].id : i \in 1..Len(objs)}

\* ---------------------------------------------------------------- pdf_size

\* pdf_size before its unwrap: the viewport, or else the tree's size, divided
\* by dpi_ratio.
pdf_size(t_size, opts) ==
  LET viewport_size == IF opts.viewport.ok THEN opts.viewport ELSE t_size IN
  SizeFromWh(FDiv(viewport_size.w, dpi_ratio(opts.dpi)),
             FDiv(viewport_size.h, dpi_ratio(opts.dpi)))

\* initial_transform's only fallible step: the view box over the tree's size.
initial_transform_ok(t_size) == NonZeroRectFromXYWH(t_size.w, t_size.h)

\* A failing unwrap: the conversion aborts where it stands.
Panic(why) ==
  /\ pc' = "panicked"
  /\ panic' = why
  /\ UNCHANGED <<inputs, run, prev, lazies, conversion>>

\* ------------------------------------------------------------ convert_tree

\* Mutant of ConvertTreeStartArg: the allocator carries on from where the
\* process's previous conversion left it.
ConvertTreeStartArgStale == ref_allocator

\* Mutant of RootScope: the entry point forgets to push.
RootScopeMissing == <<>>

\* ctx.deferrer.push() of the entry point: the scope of the page
\* (convert_tree) or of the root XObject (convert_tree_into), on the new
\* deferrer's empty stack.
RootScope == Push(<<>>)

\* The start_ref convert_tree hands to Context::new: None.
ConvertTreeStartArg == 0

\* convert_tree up to the call of tree_to_stream: pdf_size, a new Context and
\* Pdf, the four references, the catalog and the page tree, the page's scope,
\* and initial_transform.
ConvertTreeBegin ==
  /\ pc = "start"
  /\ entry = "convert_tree"
  /\ IF ~pdf_size(tree_size, options).ok THEN Panic("pdf_size")
     ELSE IF ~initial_transform_ok(tree_size) THEN Panic("initial_transform")
     ELSE
       LET a == NewAllocator(ConvertTreeStartArg)
           got == Take(a, 4)
       IN /\ refs' = [NoRefs EXCEPT !.catalog = got[1], !.page_tree = got[2],
                                    !.page = got[3], !.content = got[4]]
          /\ ref_allocator' = RefAfter(a, 4)
          /\ issued' = got
          /\ written' = << Obj(got[1], "catalog", {got[2]}, {}, <<>>, "none"),
                           Obj(got[2], "pages", {got[3]}, {}, <<>>, "none") >>
          /\ pending_entries' = RootScope
          /\ frames' = <<>>
          /\ srgb_ref' = 0
          /\ sgray_ref' = 0
          /\ pos' = 1
          /\ ret' = 0
          /\ usedBy' = {}
          /\ pc' = "walk"
          /\ UNCHANGED <<inputs, run, prev, lazies, panic>>

\* convert_tree after the walk: the content stream, then the page with the
\* resources of its scope, its parent, its transparency group in sRGB and its
\* contents.
ConvertTreeFinish ==
  /\ pc = "walk"
  /\ entry = "convert_tree"
  /\ pos > Len(tree)
  /\ IF pending_entries = <<>> THEN Panic("pop")
     ELSE
       LET dict == PopEntries(pending_entries)
           srgb == ProfileRef(srgb_ref, ref_allocator)
       IN /\ pending_entries' = PopRest(pending_entries)
          /\ srgb_ref' = srgb
          /\ issued' = issued \o ProfileIssued(srgb_ref, ref_allocator)
          /\ ref_allocator' = ProfileNext(srgb_ref, ref_allocator)
          /\ written' = written \o
               << Obj(refs.content, "content", {}, {}, <<>>, ContentFilter),
                  Obj(refs.page, "page",
                      dict \cup {refs.page_tree, srgb, refs.content}, dict,
                      <<>>, "none") >>
          /\ pc' = "colors"
          /\ UNCHANGED <<inputs, run, prev, lazies, panic, pos, frames,
                         sgray_ref, refs, ret, usedBy>>

\* Mutant of DocumentInfo: the reference is reserved, the object not written.
DocumentInfoNotWritten(id) == <<>>

\* The document info convert_tree writes last.
DocumentInfo(id) == << Obj(id, "info", {}, {}, <<>>, "none") >>

\* convert_tree after write_color_spaces: the document info, and the buffer.
ConvertTreeInfo ==
  /\ pc = "info"
  /\ entry = "convert_tree"
  /\ refs' = [refs EXCEPT !.info = ref_allocator]
  /\ issued' = Append(issued, ref_allocator)
  /\ ref_allocator' = AllocNext(ref_allocator)
  /\ written' = written \o DocumentInfo(ref_allocator)
  /\ pc' = "done"
  /\ UNCHANGED <<inputs, run, prev, lazies, panic, pos, pending_entries,
                 frames, srgb_ref, sgray_ref, ret, usedBy>>

\* ------------------------------------------------------- convert_tree_into

\* Mutant of ConvertTreeIntoStartArg: the first identity is the one after
\* start_ref.
ConvertTreeIntoStartArgNext == start_ref + 1

\* Mutant of ConvertTreeIntoStartArg: start_ref is not handed on; None is, as
\* in convert_tree.
ConvertTreeIntoStartArgNone == ConvertTreeStartArg

\* The start_ref convert_tree_into hands to Context::new: Some(start_ref.get()).
ConvertTreeIntoStartArg == start_ref

\* convert_tree_into up to the call of tree_to_stream: pdf_size, a new
\* Context, the root XObject's reference, its scope, and initial_transform.
ConvertTreeIntoBegin ==
  /\ pc = "start"
  /\ entry = "convert_tree_into"
  /\ IF ~pdf_size(tree_size, options).ok THEN Panic("pdf_size")
     ELSE IF ~initial_transform_ok(tree_size) THEN Panic("initial_transform")
     ELSE
       LET a == NewAllocator(ConvertTreeIntoStartArg) IN
          /\ refs' = [NoRefs EXCEPT !.x = a]
          /\ ref_allocator' = AllocNext(a)
          /\ issued' = <<a>>
          /\ written' = <<>>
          /\ pending_entries' = RootScope
          /\ frames' = <<>>
          /\ srgb_ref' = 0
          /\ sgray_ref' = 0
          /\ pos' = 1
          /\ ret' = 0
          /\ usedBy' = {}
          /\ pc' = "walk"
          /\ UNCHANGED <<inputs, run, prev, lazies, panic>>

\* convert_tree_into after the walk: the root Form XObject with the resources
\* of its scope.
ConvertTreeIntoFinish ==
  /\ pc = "walk"
  /\ entry = "convert_tree_into"
  /\ pos > Len(tree)
  /\ IF pending_entries = <<>> THEN Panic("pop")
     ELSE
       LET dict == PopEntries(pending_entries) IN
          /\ pending_entries' = PopRest(pending_entries)
          /\ written' = Append(written,
               Obj(refs.x, "form_xobject", dict, dict, <<>>, ContentFilter))
          /\ pc' = "colors"
          /\ UNCHANGED <<inputs, run, prev, lazies, panic, pos, ref_allocator,
                         issued, frames, srgb_ref, sgray_ref, refs, ret,
                         usedBy>>

\* convert_tree_into's last line: the next free reference, returned.
ConvertTreeIntoReturn ==
  /\ pc = "return"
  /\ entry = "convert_tree_into"
  /\ ret' = ref_allocator
  /\ issued' = Append(issued, ref_allocator)
  /\ ref_allocator' = AllocNext(ref_allocator)
  /\ pc' = "done"
  /\ UNCHANGED <<inputs, run, prev, lazies, panic, pos, pending_entries,
                 frames, srgb_ref, sgray_ref, written, refs, usedBy>>

\* ------------------------------------------------------ write_color_spaces

\* Mutant of ColorSpaceObjects: the gray branch writes the sRGB profile.
ColorSpaceObjectsSrgbTwice ==
  (IF used_srgb
   THEN << Obj(srgb_ref, "icc_srgb", {}, {},
               Force(SRGB_ICC_DEFLATED, "sRGB-v4.icc"), "FlateDecode") >>
   ELSE <<>>)
  \o
  (IF used_sgray
   THEN << Obj(srgb_ref, "icc_srgb", {}, {},
               Force(SRGB_ICC_DEFLATED, "sRGB-v4.icc"), "FlateDecode") >>
   ELSE <<>>)

\* Mutant of ColorSpaceObjects: the sRGB branch tests used_sgray.
ColorSpaceObjectsWrongGuard ==
  (IF used_sgray
   THEN << Obj(srgb_ref, "icc_srgb", {}, {},
               Force(SRGB_ICC_DEFLATED, "sRGB-v4.icc"), "FlateDecode") >>
   ELSE <<>>)
  \o
  (IF used_sgray
   THEN << Obj(sgray_ref, "icc_gray", {}, {},
               Force(GRAY_ICC_DEFLATED, "sGrey-v4.icc"), "FlateDecode") >>
   ELSE <<>>)

\* The ICC profile objects write_color_spaces writes: sRGB if used, then gray
\* if used, each under its reserved reference with the Lazy's bytes.
ColorSpaceObjects ==
  (IF used_srgb
   THEN << Obj(srgb_ref, "icc_srgb", {}, {},
               Force(SRGB_ICC_DEFLATED, "sRGB-v4.icc"), "FlateDecode") >>
   ELSE <<>>)
  \o
  (IF used_sgray
   THEN << Obj(sgray_ref, "icc_gray", {}, {},
               Force(GRAY_ICC_DEFLATED, "sGrey-v4.icc"), "FlateDecode") >>
   ELSE <<>>)

write_color_spaces ==
  /\ pc = "colors"
  /\ written' = written \o ColorSpaceObjects
  /\ SRGB_ICC_DEFLATED' =
       IF used_srgb THEN Force(SRGB_ICC_DEFLATED, "sRGB-v4.icc")
       ELSE SRGB_ICC_DEFLATED
  /\ GRAY_ICC_DEFLATED' =
       IF used_sgray THEN Force(GRAY_ICC_DEFLATED, "sGrey-v4.icc")
       ELSE GRAY_ICC_DEFLATED
  /\ pc' = IF entry = "convert_tree" THEN "info" ELSE "return"
  /\ UNCHANGED <<inputs, run, prev, panic, pos, ref_allocator, issued,
                 pending_entries, frames, srgb_ref, sgray_ref, refs, ret,
                 usedBy>>

\* ---------------------------------------------------------- tree_to_stream

Walking == pc = "walk" /\ pos <= Len(tree)

\* The object whose content stream is being built: the innermost nested
\* XObject, or else the page (convert_tree) or the root XObject
\* (convert_tree_into).
Owner ==
  IF frames # <<>> THEN frames[Len(frames)]
  ELSE IF entry = "convert_tree" THEN refs.page ELSE refs.x

\* A node painted in sRGB: the profile's reference, reserved on first use, is
\* a colour space resource of the content stream being built.
WalkRgb ==
  /\ Walking
  /\ tree[pos] = "rgb"
  /\ IF pending_entries = <<>> THEN Panic("add_entry")
     ELSE
       LET r == ProfileRef(srgb_ref, ref_allocator) IN
          /\ srgb_ref' = r
          /\ issued' = issued \o ProfileIssued(srgb_ref, ref_allocator)
          /\ ref_allocator' = ProfileNext(srgb_ref, ref_allocator)
          /\ pending_entries' = AddEntry(pending_entries, r)
          /\ usedBy' = usedBy \cup {<<Owner, r>>}
          /\ pos' = pos + 1
          /\ UNCHANGED <<inputs, run, prev, lazies, pc, panic, frames,
                         sgray_ref, written, refs, ret>>

\* A node painted in gray: likewise with the gray profile.
WalkGray ==
  /\ Walking
  /\ tree[pos] = "gray"
  /\ IF pending_entries = <<>> THEN Panic("add_entry")
     ELSE
       LET r == ProfileRef(sgray_ref, ref_allocator) IN
          /\ sgray_ref' = r
          /\ issued' = issued \o ProfileIssued(sgray_ref, ref_allocator)
          /\ ref_allocator' = ProfileNext(sgray_ref, ref_allocator)
          /\ pending_entries' = AddEntry(pending_entries, r)
          /\ usedBy' = usedBy \cup {<<Owner, r>>}
          /\ pos' = pos + 1
          /\ UNCHANGED <<inputs, run, prev, lazies, pc, panic, frames,
                         srgb_ref, written, refs, ret>>

\* A node whose paint is an indirect object of its own: a reference is
\* reserved, the object is written, and it is a resource of the content
\* stream being built.
WalkRes ==
  /\ Walking
  /\ tree[pos] = "res"
  /\ IF pending_entries = <<>> THEN Panic("add_entry")
     ELSE
       /\ issued' = Append(issued, ref_allocator)
       /\ ref_allocator' = AllocNext(ref_allocator)
       /\ written' = Append(written,
            Obj(ref_allocator, "resource", {}, {}, <<>>, "none"))
       /\ pending_entries' = AddEntry(pending_entries, ref_allocator)
       /\ usedBy' = usedBy \cup {<<Owner, ref_allocator>>}
       /\ pos' = pos + 1
       /\ UNCHANGED <<inputs, run, prev, lazies, pc, panic, frames, srgb_ref,
                      sgray_ref, refs, ret>>

\* Entering a nested content stream: its XObject's reference is reserved and
\* a scope is pushed for it.
WalkEnter ==
  /\ Walking
  /\ tree[pos] = "enter"
  /\ issued' = Append(issued, ref_allocator)
  /\ ref_allocator' = AllocNext(ref_allocator)
  /\ frames' = Append(frames, ref_allocator)
  /\ pending_entries' = Push(pending_entries)
  /\ pos' = pos + 1
  /\ UNCHANGED <<inputs, run, prev, lazies, pc, panic, srgb_ref, sgray_ref,
                 written, refs, ret, usedBy>>

\* Leaving a nested content stream: its scope is popped into the XObject's
\* resources, the XObject is written, and it becomes a resource of the
\* content stream around it.
WalkLeave ==
  /\ Walking
  /\ tree[pos] = "leave"
  /\ IF Len(pending_entries) < 2 \/ frames = <<>> THEN Panic("pop")
     ELSE
       LET x == frames[Len(frames)]
           dict == PopEntries(pending_entries)
           outer == SubSeq(frames, 1, Len(frames) - 1)
           parent == IF outer # <<>> THEN outer[Len(outer)]
                     ELSE IF entry = "convert_tree" THEN refs.page ELSE refs.x
       IN /\ written' = Append(written,
               Obj(x, "xobject", dict, dict, <<>>, ContentFilter))
          /\ frames' = outer
          /\ pending_entries' = AddEntry(PopRest(pending_entries), x)
          /\ usedBy' = usedBy \cup {<<parent, x>>}
          /\ pos' = pos + 1
          /\ UNCHANGED <<inputs, run, prev, lazies, pc, panic, ref_allocator,
                         issued, srgb_ref, sgray_ref, refs, ret>>

tree_to_stream == WalkRgb \/ WalkGray \/ WalkRes \/ WalkEnter \/ WalkLeave

\* ----------------------------------------------------------- specification

\* What a finished conversion produced: the identities in the order issued,
\* the objects in the order written, and the reference returned.
Output == [issued |-> issued, written |-> written, ret |-> ret]

\* The caller converts the same tree with the same options once more, in the
\* same process.
Again ==
  /\ pc = "done"
  /\ run < MaxRuns
  /\ run' = run + 1
  /\ prev' = <<Output>>
  /\ pc' = "start"
  /\ UNCHANGED <<inputs, lazies, panic, conversion>>

Next ==
  \/ ConvertTreeBegin
  \/ ConvertTreeFinish
  \/ ConvertTreeInfo
  \/ ConvertTreeIntoBegin
  \/ ConvertTreeIntoFinish
  \/ ConvertTreeIntoReturn
  \/ write_color_spaces
  \/ tree_to_stream
  \/ Again

Spec == Init /\ [][Next]_vars

\* ------------------------------------------------------------------ claims

Done == pc = "done"

IssuedSet == {issued[i] : i \in 1..Len(issued)}

\* How many objects were written under identity id.
TimesWritten(id) == Cardinality({i \in 1..Len(written) : written[i].id = id})

\* How many objects of a kind were written.
Count(kind) == Cardinality({i \in 1..Len(written) : written[i].kind = kind})

\* Some node of the tree is of the given kind.
NodeUses(kind) == \E i \in 1..Len(tree) : tree[i] = kind

\* The objects that own a content stream's resources dictionary.
IsScopeOwner(o) == o.kind \in {"page", "form_xobject", "xobject"}

\* C1: convert_tree_into allocates consecutive identities from start_ref: the
\* root Form XObject is written as start_ref, the identities issued before
\* the returned one are exactly start_ref .. returned - 1, and the returned
\* Ref is greater than every identity written and is not written itself.
C1_ConsecutiveFromStartRef ==
  (Done /\ entry = "convert_tree_into") =>
    /\ \E i \in 1..Len(written) :
         written[i].kind = "form_xobject" /\ written[i].id = start_ref
    /\ issued[Len(issued)] = ret
    /\ {issued[i] : i \in 1..(Len(issued) - 1)} = start_ref..(ret - 1)
    /\ \A i \in 1..Len(written) : written[i].id < ret
    /\ ret \notin Ids(written)

C1_Witness ==
  /\ Done
  /\ entry = "convert_tree_into"
  /\ start_ref = MaxStartRef
  /\ ret >= start_ref + 3
  /\ Len(written) >= 3

\* C2: within one conversion every identity the allocator returns is greater
\* than all it returned before (so none is issued twice), whoever asked: the
\* entry point, the walk, or the first use of an ICC profile.
C2_IssuedStrictlyIncreasing ==
  \A i, j \in 1..Len(issued) : i < j => issued[i] < issued[j]

C2_Witness ==
  /\ Done
  /\ srgb_ref # 0
  /\ sgray_ref # 0
  /\ Count("xobject") >= 1
  /\ Len(issued) >= 6

\* C3 as claimed: every identity convert_tree_into issues, the root XObject's
\* included, is strictly greater than start_ref.
C3_AllGreaterThanStartRef ==
  entry = "convert_tree_into" =>
    \A i \in 1..Len(issued) : issued[i] > start_ref

\* C3, amended: no identity convert_tree_into issues is below start_ref; the
\* first one, the root XObject's, is start_ref itself and every later one is
\* strictly greater.
C3_FirstIsStartRefRestGreater ==
  (entry = "convert_tree_into" /\ issued # <<>>) =>
    /\ issued[1] = start_ref
    /\ refs.x = start_ref
    /\ \A i \in 2..Len(issued) : issued[i] > start_ref

C3_Witness ==
  /\ entry = "convert_tree_into"
  /\ start_ref = MaxStartRef
  /\ pc = "walk"
  /\ Len(issued) >= 3

\* C4 as claimed: at the end each ICC profile has been written exactly once
\* if some node of the tree used it, and not at all otherwise.
C4_WrittenIffNodeUsed ==
  Done =>
    /\ Count("icc_srgb") = (IF NodeUses("rgb") THEN 1 ELSE 0)
    /\ Count("icc_gray") = (IF NodeUses("gray") THEN 1 ELSE 0)

\* C4, amended: a profile is never written more than once, and only by
\* write_color_spaces after the walk and the page or root XObject; the gray
\* profile is written exactly when some node used it; the sRGB profile is
\* written exactly when some node used it or the entry point is
\* convert_tree, whose page group always refers to it.
C4_WrittenOnceIffReferenced ==
  /\ Count("icc_srgb") <= 1
  /\ Count("icc_gray") <= 1
  /\ pc \in {"walk", "colors"} => Count("icc_srgb") + Count("icc_gray") = 0
  /\ \A i, j \in 1..Len(written) :
       (i < j /\ written[i].kind \in {"icc_srgb", "icc_gray"})
         => written[j].kind \in {"icc_srgb", "icc_gray", "info"}
  /\ Done =>
       /\ Count("icc_srgb") =
            (IF NodeUses("rgb") \/ entry = "convert_tree" THEN 1 ELSE 0)
       /\ Count("icc_gray") = (IF NodeUses("gray") THEN 1 ELSE 0)

C4_Witness ==
  /\ Done
  /\ entry = "convert_tree"
  /\ ~NodeUses("rgb")
  /\ NodeUses("gray")
  /\ Count("icc_srgb") = 1
  /\ Count("icc_gray") = 1

\* C5: a resources dictionary holds only what was referenced while its own
\* content stream was the innermost one being built, so nothing that only a
\* sibling content stream (or a nested or an enclosing one) used.
C5_ScopeIsolation ==
  \A i \in 1..Len(written) :
    IsScopeOwner(written[i]) =>
      \A r \in written[i].res : <<written[i].id, r>> \in usedBy

\* Two sibling nested content streams, one with a resource of its own and one
\* without any.
C5_Witness ==
  /\ Done
  /\ \E i, j, k \in 1..Len(written) :
       /\ written[i].kind = "xobject"
       /\ written[j].kind = "xobject"
       /\ written[i].res # {}
       /\ written[j].res = {}
       /\ IsScopeOwner(written[k])
       /\ {written[i].id, written[j].id} \subseteq written[k].res

C7_NeverPanics == pc # "panicked"

\* C8 as claimed: when the conversion returns, every identity reserved from
\* the allocator has been written as an object exactly once.
C8_EveryReservedWrittenOnce ==
  Done => \A id \in IssuedSet : TimesWritten(id) = 1

\* C8, amended: when the conversion returns, every identity reserved has been
\* written exactly once, except the one convert_tree_into reserves last and
\* returns as the next free identity, which is not written; and nothing is
\* written under an identity that was not reserved.
C8_AllButReturnedWrittenOnce ==
  Done =>
    /\ \A id \in IssuedSet : TimesWritten(id) = (IF id = ret THEN 0 ELSE 1)
    /\ Ids(written) \subseteq IssuedSet

C8_Witness ==
  /\ Done
  /\ entry = "convert_tree_into"
  /\ ret \in IssuedSet
  /\ TimesWritten(ret) = 0
  /\ srgb_ref # 0
  /\ Count("xobject") >= 1
  /\ Count("resource") >= 1

\* C9: the scope stack is never popped (or written to) while empty; during
\* the walk it holds the entry point's scope and one scope per nested content
\* stream being built, whose owners are not written yet; it is empty once the
\* page or root XObject has its resources, and so when the conversion
\* returns.
C9_ScopeStackBalanced ==
  /\ panic \notin {"pop", "add_entry"}
  /\ pc = "walk" =>
       /\ Len(pending_entries) = Len(frames) + 1
       /\ \A i \in 1..Len(frames) : frames[i] \notin Ids(written)
       /\ Owner \notin Ids(written)
  /\ pc \in {"colors", "info", "return", "done"} =>
       /\ pending_entries = <<>>
       /\ frames = <<>>

C9_Witness ==
  /\ Done
  /\ pending_entries = <<>>
  /\ Count("xobject") >= 2
  /\ \E n \in 1..Len(tree) : Depth(tree, n) = 2

\* C10: in convert_tree's output every identity a written object refers to is
\* the identity of a written object, the sRGB profile of the page group
\* included even when no node is painted in sRGB.
C10_NoDanglingReference ==
  (Done /\ entry = "convert_tree") =>
    \A i \in 1..Len(written) : written[i].refs \subseteq Ids(written)

C10_Witness ==
  /\ Done
  /\ entry = "convert_tree"
  /\ ~NodeUses("rgb")
  /\ \E i \in 1..Len(written) :
       /\ written[i].kind = "page"
       /\ srgb_ref \in written[i].refs
       /\ written[i].res # {}
  /\ srgb_ref \in Ids(written)

====
